---- MODULE Spec2Model ----
(***************************************************************************)
(* Model of interpol (src/main.rs): the pixel blend `smooth`, the image    *)
(* container `Image`, the stateful frame generator `Interpolator` and the  *)
(* driver `main`.                                                          *)
(***************************************************************************)
EXTENDS Integers, Naturals, Sequences, FiniteSets, TLC

(***************************************************************************)
(* f64 arithmetic.                                                         *)
(*                                                                         *)
(* Every f64 value the program computes is a non-negative number below     *)
(* 2^12 that is a multiple of 2^-72 (for steps < 2^18), so an f64 is held   *)
(* exactly as a fixed-point number: a sequence of NLimbs 12-bit limbs,      *)
(* least significant first, limb i having weight                           *)
(* 2^(12 * (i - 1 - FracLimbs)).  Each f64 operation computes the exact    *)
(* result and then rounds it to 53 significant bits, ties to even, as      *)
(* IEEE-754 binary64 arithmetic does.                                      *)
(***************************************************************************)
LimbBits == 6 + 6
LimbBase == 2^LimbBits
FracLimbs == 3 + 3
NLimbs == FracLimbs + 1
Mantissa == 50 + 3

\* bit p of X, bit 0 being the least significant
Bit(X, p) == (X[(p \div LimbBits) + 1] \div 2^(p % LimbBits)) % 2

RECURSIVE BitLenFrom(_, _)
BitLenFrom(X, i) ==
    IF i = 0 THEN 0
    ELSE IF X[i] = 0 THEN BitLenFrom(X, i - 1)
    ELSE LimbBits * (i - 1)
         + (CHOOSE j \in 1..LimbBits : 2^(j-1) <= X[i] /\ X[i] < 2^j)

\* number of significant bits of X
BitLen(X) == BitLenFrom(X, NLimbs)

AnyBelow(X, p) == \E q \in 0..(p - 1) : Bit(X, q) = 1

RECURSIVE ClearFrom(_, _, _)
ClearFrom(X, p, i) ==
    IF i > NLimbs THEN << >>
    ELSE << IF LimbBits * i <= p THEN 0
            ELSE IF LimbBits * (i - 1) >= p THEN X[i]
            ELSE X[i] - (X[i] % 2^(p - LimbBits * (i - 1))) >>
         \o ClearFrom(X, p, i + 1)

\* X with the bits below bit p cleared
ClearBelow(X, p) == ClearFrom(X, p, 1)

RECURSIVE AddFrom(_, _, _, _)
AddFrom(X, Y, i, carry) ==
    IF i > NLimbs THEN << >>
    ELSE LET s == X[i] + Y[i] + carry
         IN  << s % LimbBase >> \o AddFrom(X, Y, i + 1, s \div LimbBase)

FixAdd(X, Y) == AddFrom(X, Y, 1, 0)

RECURSIVE SubFrom(_, _, _, _)
SubFrom(X, Y, i, borrow) ==
    IF i > NLimbs THEN << >>
    ELSE LET s == X[i] - Y[i] - borrow
         IN  << (s + LimbBase) % LimbBase >>
             \o SubFrom(X, Y, i + 1, IF s < 0 THEN 1 ELSE 0)

\* X - Y for X >= Y
FixSub(X, Y) == SubFrom(X, Y, 1, 0)

RECURSIVE MulFrom(_, _, _, _)
MulFrom(X, c, i, carry) ==
    IF i > NLimbs THEN << >>
    ELSE LET s == X[i] * c + carry
         IN  << s % LimbBase >> \o MulFrom(X, c, i + 1, s \div LimbBase)

\* X * c for an integer 0 <= c < 2^8
FixMulSmall(X, c) == MulFrom(X, c, 1, 0)

RECURSIVE PowFrom(_, _)
PowFrom(p, i) ==
    IF i > NLimbs THEN << >>
    ELSE << IF i = (p \div LimbBits) + 1 THEN 2^(p % LimbBits) ELSE 0 >>
         \o PowFrom(p, i + 1)

\* 2^p as a fixed-point number, bit 0 being the least significant
PowerOfTwo(p) == PowFrom(p, 1)

\* round to nearest f64, ties to even; sticky: the exact value has
\* non-zero bits below the lowest limb
RoundF64(X, sticky) ==
    LET L == BitLen(X) IN
    IF L <= Mantissa THEN X
    ELSE LET d == L - Mantissa
             guard == Bit(X, d - 1) = 1
             rest == sticky \/ AnyBelow(X, d - 1)
             odd == Bit(X, d) = 1
             T == ClearBelow(X, d)
         IN  IF guard /\ (rest \/ odd) THEN FixAdd(T, PowerOfTwo(d)) ELSE T

\* `c as f64` for an integer 0 <= c < 2^12
F64FromInt(c) == FixMulSmall(PowerOfTwo(LimbBits * FracLimbs), c)

\* the limbs of (r / s) * 2^(12 * n) for r < s, least significant first
RECURSIVE QuotFrom(_, _, _)
QuotFrom(r, s, n) ==
    IF n = 0 THEN << >>
    ELSE QuotFrom((r * LimbBase) % s, s, n - 1) \o << (r * LimbBase) \div s >>

RECURSIVE RemFrom(_, _, _)
RemFrom(r, s, n) == IF n = 0 THEN r ELSE RemFrom((r * LimbBase) % s, s, n - 1)

\* `k as f64 / s as f64` for integers 0 <= k, 0 < s < 2^18, k / s < 2^12
F64DivInt(k, s) ==
    RoundF64(QuotFrom(k % s, s, FracLimbs) \o << k \div s >>,
             RemFrom(k % s, s, FracLimbs) # 0)

F64Trunc(X) == ClearBelow(X, LimbBits * FracLimbs)
F64Sub(X, Y) == RoundF64(FixSub(X, Y), FALSE)
F64Add(X, Y) == RoundF64(FixAdd(X, Y), FALSE)
\* `c as f64 * X` for a u8 c
F64MulU8(c, X) == RoundF64(FixMulSmall(X, c), FALSE)
\* `X as u8` rounding to the nearest integer instead of truncating
F64AsU8_Nearest(X) ==
    IF X[NLimbs] >= 255 THEN 255
    ELSE X[NLimbs] + Bit(X, LimbBits * FracLimbs - 1)

\* `X as u8`: truncation toward zero, saturating at 255
F64AsU8(X) == IF X[NLimbs] > 255 THEN 255 ELSE X[NLimbs]

(***************************************************************************)
(* fn smooth(mu: f64, c1: Pixel, c2: Pixel) -> Pixel                       *)
(***************************************************************************)
SmoothChannel(t1, t2, a, b) ==
    F64AsU8(F64Add(F64MulU8(a, t1), F64MulU8(b, t2)))

\* smooth with the two weights exchanged
smooth_Swapped(mu, c1, c2) ==
    LET t2 == F64Sub(mu, F64Trunc(mu))
        t1 == F64Sub(F64FromInt(1), t2)
    IN  [r |-> SmoothChannel(t2, t1, c1.r, c2.r),
         g |-> SmoothChannel(t2, t1, c1.g, c2.g),
         b |-> SmoothChannel(t2, t1, c1.b, c2.b)]

smooth(mu, c1, c2) ==
    LET t2 == F64Sub(mu, F64Trunc(mu))
        t1 == F64Sub(F64FromInt(1), t2)
    IN  [r |-> SmoothChannel(t1, t2, c1.r, c2.r),
         g |-> SmoothChannel(t1, t2, c1.g, c2.g),
         b |-> SmoothChannel(t1, t2, c1.b, c2.b)]

(***************************************************************************)
(* u32 arithmetic of Image::new_from_parts.                                *)
(*                                                                         *)
(* A u32 is held as the pair << high 16 bits, low 16 bits >>.  Operands    *)
(* are integers below 2^31.                                                *)
(***************************************************************************)
Half == 2^16
Byte == 2^8

\* `x as u32`
AsU32(x) == << (x \div Half) % Half, x % Half >>

\* (w % 2^16) * (h % 2^16) as << high 16 bits, low 16 bits >>
LowProduct(w, h) ==
    LET p0 == ((w % Half) % Byte) * (h % Half)
        p1 == ((w % Half) \div Byte) * (h % Half)
        low == p0 + (p1 % Byte) * Byte
    IN  << (low \div Half) + (p1 \div Byte), low % Half >>

\* the sum of the two cross products and the carry of the low product,
\* as << bits 16 and above, low 16 bits >>
CrossSum(w, h) ==
    LET x == (w \div Half) * (h % Half)
        y == (w % Half) * (h \div Half)
        low == (x % Half) + (y % Half) + LowProduct(w, h)[1]
    IN  << (x \div Half) + (y \div Half) + (low \div Half), low % Half >>

\* `w * h` in a build without overflow checks
WrappingMul(w, h) == << CrossSum(w, h)[2], LowProduct(w, h)[2] >>

\* whether w * h exceeds the u32 range
MulOverflows(w, h) ==
    (w \div Half) * (h \div Half) # 0 \/ CrossSum(w, h)[1] # 0

(***************************************************************************)
(* struct Image, Image::new_from_parts                                     *)
(***************************************************************************)
Pixel(r, g, b) == [r |-> r, g |-> g, b |-> b]

Image(data, width, height) ==
    [data |-> data, width |-> width, height |-> height]

Ok(image) == [tag |-> "Ok", image |-> image]
Err == [tag |-> "Err"]
Panic == [tag |-> "Panic"]

\* overflow_checks: the build panics on arithmetic overflow (a debug
\* build) instead of wrapping (a release build)
new_from_parts(data, width, height, overflow_checks) ==
    IF overflow_checks /\ MulOverflows(width, height) THEN Panic
    ELSE IF AsU32(Len(data)) = WrappingMul(width, height)
         THEN Ok(Image(data, width, height))
         ELSE Err

(***************************************************************************)
(* struct Interpolator, Interpolator::next                                 *)
(***************************************************************************)
\* Some(image), with the branch of next() that made it and the frame_num
\* it was made for
Some(image, branch, frame_num) ==
    [tag |-> "Some", image |-> image, branch |-> branch,
     frame_num |-> frame_num]
None == [tag |-> "None"]

Min(a, b) == IF a <= b THEN a ELSE b

\* the zip stopping one pixel pair before the end of the shorter buffer
RECURSIVE ZipSmooth_DropLast(_, _, _, _)
ZipSmooth_DropLast(mu, d1, d2, i) ==
    IF i >= Min(Len(d1), Len(d2)) THEN << >>
    ELSE << smooth(mu, d1[i], d2[i]) >>
         \o ZipSmooth_DropLast(mu, d1, d2, i + 1)

\* start.data.iter().zip(end.data.iter()).map(|(c1, c2)| smooth(mu, *c1, *c2))
RECURSIVE ZipSmooth(_, _, _, _)
ZipSmooth(mu, d1, d2, i) ==
    IF i > Min(Len(d1), Len(d2)) THEN << >>
    ELSE << smooth(mu, d1[i], d2[i]) >> \o ZipSmooth(mu, d1, d2, i + 1)

\* Interpolate with the fraction taken one frame too far
Interpolate_NextFraction(start, end, frame_num, steps, overflow_checks) ==
    LET mu == F64DivInt(frame_num + 1, steps)
        data == ZipSmooth(mu, start.data, end.data, 1)
        made == new_from_parts(data, start.width, start.height,
                               overflow_checks)
    IN  IF made.tag = "Ok" THEN Some(made.image, "blend", frame_num)
        ELSE Panic

\* The interpolating branch of next(): the item it returns, or Panic
Interpolate(start, end, frame_num, steps, overflow_checks) ==
    LET mu == F64DivInt(frame_num, steps)
        data == ZipSmooth(mu, start.data, end.data, 1)
        made == new_from_parts(data, start.width, start.height,
                               overflow_checks)
    IN  IF made.tag = "Ok" THEN Some(made.image, "blend", frame_num)
        ELSE Panic

\* next() entering the next segment one frame late: for steps >= 1 it
\* compares frame_num > steps, and so blends once more with frame_num = steps
NextOf_LateCopy(self, overflow_checks) ==
    LET frame_num == self.frame_no
        n == Len(self.images)
    IN  IF frame_num > self.steps_per_interpolation
           \/ self.steps_per_interpolation = 0
        THEN [frame_no |-> 1,
              image_no |-> self.image_no + 1,
              item |-> IF self.image_no + 1 < n
                       THEN Some(self.images[self.image_no + 2], "copy",
                                 frame_num)
                       ELSE None]
        ELSE [frame_no |-> frame_num + 1,
              image_no |-> self.image_no,
              item |-> IF self.image_no < n /\ self.image_no + 1 < n
                       THEN Interpolate(self.images[self.image_no + 1],
                                        self.images[self.image_no + 2],
                                        frame_num,
                                        self.steps_per_interpolation,
                                        overflow_checks)
                       ELSE None]

\* next() starting over at images[0] after the last image
NextOf_Wrapping(self, overflow_checks) ==
    LET frame_num == self.frame_no
        n == Len(self.images)
    IN  IF frame_num >= self.steps_per_interpolation
        THEN [frame_no |-> 1,
              image_no |-> IF self.image_no + 1 < n THEN self.image_no + 1 ELSE 0,
              item |-> IF n > 0
                       THEN Some(self.images[IF self.image_no + 1 < n
                                        THEN self.image_no + 2 ELSE 1], "copy",
                                 frame_num)
                       ELSE None]
        ELSE [frame_no |-> frame_num + 1,
              image_no |-> self.image_no,
              item |-> IF self.image_no < n /\ self.image_no + 1 < n
                       THEN Interpolate(self.images[self.image_no + 1],
                                        self.images[self.image_no + 2],
                                        frame_num,
                                        self.steps_per_interpolation,
                                        overflow_checks)
                       ELSE None]

\* next() taking images.get(image_no) before it advances image_no
NextOf_CopyBeforeAdvance(self, overflow_checks) ==
    LET frame_num == self.frame_no
        n == Len(self.images)
    IN  IF frame_num >= self.steps_per_interpolation
        THEN [frame_no |-> 1,
              image_no |-> self.image_no + 1,
              item |-> IF self.image_no < n
                       THEN Some(self.images[self.image_no + 1], "copy",
                                 frame_num)
                       ELSE None]
        ELSE [frame_no |-> frame_num + 1,
              image_no |-> self.image_no,
              item |-> IF self.image_no < n /\ self.image_no + 1 < n
                       THEN Interpolate(self.images[self.image_no + 1],
                                        self.images[self.image_no + 2],
                                        frame_num,
                                        self.steps_per_interpolation,
                                        overflow_checks)
                       ELSE None]

\* next() resetting frame_no to 0, not 1, when it enters the next segment
NextOf_ResetZero(self, overflow_checks) ==
    LET frame_num == self.frame_no
        n == Len(self.images)
    IN  IF frame_num >= self.steps_per_interpolation
        THEN [frame_no |-> 0,
              image_no |-> self.image_no + 1,
              item |-> IF self.image_no + 1 < n
                       THEN Some(self.images[self.image_no + 2], "copy",
                                 frame_num)
                       ELSE None]
        ELSE [frame_no |-> frame_num + 1,
              image_no |-> self.image_no,
              item |-> IF self.image_no < n /\ self.image_no + 1 < n
                       THEN Interpolate(self.images[self.image_no + 1],
                                        self.images[self.image_no + 2],
                                        frame_num,
                                        self.steps_per_interpolation,
                                        overflow_checks)
                       ELSE None]

\* next() on the interpolator self: the cursor it leaves and what it returns
NextOf(self, overflow_checks) ==
    LET frame_num == self.frame_no
        n == Len(self.images)
    IN  IF frame_num >= self.steps_per_interpolation
        THEN [frame_no |-> 1,
              image_no |-> self.image_no + 1,
              item |-> IF self.image_no + 1 < n
                       THEN Some(self.images[self.image_no + 2], "copy",
                                 frame_num)
                       ELSE None]
        ELSE [frame_no |-> frame_num + 1,
              image_no |-> self.image_no,
              item |-> IF self.image_no < n /\ self.image_no + 1 < n
                       THEN Interpolate(self.images[self.image_no + 1],
                                        self.images[self.image_no + 2],
                                        frame_num,
                                        self.steps_per_interpolation,
                                        overflow_checks)
                       ELSE None]

(***************************************************************************)
(* State                                                                   *)
(***************************************************************************)
VARIABLES
    pc,                       \* the program point of the run
    overflow_checks,          \* the build profile
    images,                   \* Interpolator.images
    image_no,                 \* Interpolator.image_no
    frame_no,                 \* Interpolator.frame_no
    steps_per_interpolation,  \* Interpolator.steps_per_interpolation
    results,                  \* what the calls of next() returned, in order
    opt,                      \* the command line (Opt) of a run of main
    fs,                       \* the output directory and the frame files
    arg,                      \* the arguments of a function under test
    ret                       \* what the function under test returned

vars == << pc, overflow_checks, images, image_no, frame_no,
           steps_per_interpolation, results, opt, fs, arg, ret >>

\* bounds of the model
MaxImages == 3
MaxSteps == 3
MaxAfterNone == 2

Black == Image(<< Pixel(0, 0, 0) >>, 1, 1)
White == Image(<< Pixel(255, 255, 255) >>, 1, 1)
Dark == Image(<< Pixel(1, 1, 1) >>, 1, 1)
Mid == Image(<< Pixel(25, 7, 200) >>, 1, 1)
Wide == Image(<< Pixel(0, 0, 0), Pixel(255, 255, 255) >>, 2, 1)
Palette == { Black, White, Dark, Mid, Wide }

ImageLists == UNION { [1..n -> Palette] : n \in 0..MaxImages }

(***************************************************************************)
(* The interpolator driven by repeated calls of next()                     *)
(***************************************************************************)
\* Interpolator::new(images, steps)
new(imgs, steps) ==
    /\ images = imgs
    /\ image_no = 0
    /\ frame_no = 0
    /\ steps_per_interpolation = steps

\* The widths and heights of the palette are far from the u32 range, so
\* both build profiles compute the same; one is taken.
Init ==
    /\ pc = "iterating"
    /\ overflow_checks = FALSE
    /\ \E imgs \in ImageLists, steps \in 0..MaxSteps : new(imgs, steps)
    /\ results = << >>
    /\ opt = << >>
    /\ fs = << >>
    /\ arg = << >>
    /\ ret = << >>

Self ==
    [images |-> images, image_no |-> image_no, frame_no |-> frame_no,
     steps_per_interpolation |-> steps_per_interpolation]

NoneCount == Cardinality({ i \in 1..Len(results) : results[i] = None })

\* next() blending in place: the blended frame overwrites the start image
next_BlendInPlace ==
    /\ pc = "iterating"
    /\ NoneCount < MaxAfterNone
    /\ LET r == NextOf(Self, overflow_checks)
       IN  /\ frame_no' = r.frame_no
           /\ image_no' = r.image_no
           /\ IF r.item = Panic
              THEN pc' = "panicked" /\ UNCHANGED << results, images >>
              ELSE /\ pc' = pc
                   /\ results' = Append(results, r.item)
                   /\ images' = IF r.item # None /\ r.item.branch = "blend"
                                THEN [images EXCEPT ![image_no + 1] =
                                                        r.item.image]
                                ELSE images
    /\ UNCHANGED << overflow_checks, steps_per_interpolation,
                    opt, fs, arg, ret >>

\* one call of Interpolator::next
next ==
    /\ pc = "iterating"
    /\ NoneCount < MaxAfterNone
    /\ LET r == NextOf(Self, overflow_checks)
       IN  /\ frame_no' = r.frame_no
           /\ image_no' = r.image_no
           /\ IF r.item = Panic
              THEN pc' = "panicked" /\ UNCHANGED results
              ELSE pc' = pc /\ results' = Append(results, r.item)
    /\ UNCHANGED << overflow_checks, images, steps_per_interpolation,
                    opt, fs, arg, ret >>

Next == next

Spec == Init /\ [][Next]_vars

\* a call of next() can be made
CanCall == pc = "iterating" /\ NoneCount < MaxAfterNone

\* the caller keeps calling next(): a call that can be made is made. This
\* is WF_vars(next) with ENABLED <<next>>_vars written as CanCall (every
\* call changes the cursor).
SpecLive ==
    Init /\ [][Next]_vars /\ (([]<>~CanCall) \/ ([]<><<next>>_vars))

(***************************************************************************)
(* Properties of the interpolator                                          *)
(***************************************************************************)
NumImages == Len(images)

\* all images share the width and height of the first
SameSize ==
    \A i \in 1..NumImages :
        /\ images[i].width = images[1].width
        /\ images[i].height = images[1].height

\* an interpolation run: at least two equally-sized images, steps >= 1
ValidRun == NumImages >= 2 /\ steps_per_interpolation >= 1 /\ SameSize

\* (n - 1) * steps + 1
Total == (NumImages - 1) * steps_per_interpolation + 1

\* next() has returned None for the first time in the last call
Drained ==
    /\ Len(results) >= 1
    /\ results[Len(results)] = None
    /\ \A i \in 1..(Len(results) - 1) : results[i].tag = "Some"

\* C1: for n >= 2 equally-sized images and steps >= 1, the calls of next()
\* return a frame exactly (n - 1) * steps + 1 times before the first None:
\* call i returns a frame for i <= Total, call Total + 1 returns None, and
\* no call panics.
C1_FrameCount ==
    ValidRun =>
        /\ pc # "panicked"
        /\ \A i \in 1..Len(results) :
              /\ i <= Total => results[i].tag = "Some"
              /\ i = Total + 1 => results[i] = None
        /\ Drained => Len(results) = Total + 1

C1_Witness ==
    /\ ValidRun /\ Drained
    /\ NumImages = 3 /\ steps_per_interpolation = 3
    /\ Len(results) = 8

\* the frame of global index k by the stateless formula:
\* segment = k / steps, local = k % steps
StatelessFrame(k) ==
    LET segment == k \div steps_per_interpolation
        local == k % steps_per_interpolation
        a == images[segment + 1]
    IN  IF local = 0 THEN a
        ELSE Image(ZipSmooth(F64DivInt(local, steps_per_interpolation),
                             a.data, images[segment + 2].data, 1),
                   a.width, a.height)

\* C2: for n >= 2 and steps >= 1 (images equally sized), once the iterator
\* is drained the frames it returned are, index by index, the frames of the
\* stateless formula for k = 0 .. (n-1)*steps, and there are as many.
C2_StatelessEquivalence ==
    (ValidRun /\ Drained) =>
        /\ Len(results) = Total + 1
        /\ \A k \in 0..(Total - 1) :
              /\ k + 1 <= Len(results)
              /\ results[k + 1].tag = "Some"
              /\ results[k + 1].image = StatelessFrame(k)

C2_Witness ==
    /\ ValidRun /\ Drained
    /\ images = << Dark, Mid, White >> /\ steps_per_interpolation = 3
    /\ results[2].image # images[1] /\ results[2].image # images[2]

\* C3: for n >= 2 and steps >= 1 (images equally sized), the first frame
\* next() returns has the pixel values, width and height of images[0].
C3_FirstFrame ==
    (ValidRun /\ Len(results) >= 1) =>
        /\ results[1].tag = "Some"
        /\ results[1].image = images[1]

C3_Witness ==
    /\ ValidRun /\ Len(results) >= 1
    /\ images[1] # images[2] /\ steps_per_interpolation = 1
    /\ results[1].image = images[1]

\* C4: for n >= 2 and steps >= 1 (images equally sized), the frame of global
\* index (n-1)*steps is images[n-1], returned by the copy branch, and it is
\* the last frame: the next call returns None.
C4_LastFrame ==
    (ValidRun /\ Len(results) >= Total) =>
        /\ results[Total].tag = "Some"
        /\ results[Total].image = images[NumImages]
        /\ results[Total].branch = "copy"
        /\ \A i \in (Total + 1)..Len(results) : results[i] = None

C4_Witness ==
    /\ ValidRun /\ Len(results) = Total + 1
    /\ NumImages = 3 /\ steps_per_interpolation = 2
    /\ images[3] # images[2]
    /\ results[Total].image = images[3] /\ results[Total + 1] = None

\* C9: for steps = 1 and n >= 2 (images equally sized), the iterator returns
\* exactly n frames and frame i is images[i].
C9_StepsOne ==
    (ValidRun /\ steps_per_interpolation = 1) =>
        /\ pc # "panicked"
        /\ \A i \in 1..Len(results) :
              /\ i <= NumImages =>
                    results[i].tag = "Some" /\ results[i].image = images[i]
              /\ i > NumImages => results[i] = None

C9_Witness ==
    /\ ValidRun /\ steps_per_interpolation = 1 /\ Drained
    /\ images = << Dark, Mid, White >>
    /\ Len(results) = 4

\* the exact convex combination a*(1 - k/s) + b*(k/s), truncated
ExactBlend(k, s, a, b) == (a * (s - k) + b * k) \div s

\* whether that convex combination is an integer
ExactIsInteger(k, s, a, b) == (a * (s - k) + b * k) % s = 0

\* channel value v is the blend of a and b at k/s as f64 arithmetic gives
\* it: the truncated exact value, or one less when the exact value is an
\* integer
WithinRounding(v, k, s, a, b) ==
    \/ v = ExactBlend(k, s, a, b)
    \/ v = ExactBlend(k, s, a, b) - 1 /\ ExactIsInteger(k, s, a, b)

Channels(px) == << px.r, px.g, px.b >>

\* the blended frames among the results, as the set of their positions
BlendedAt ==
    { i \in 1..Len(results) :
        results[i].tag = "Some" /\ results[i].branch = "blend" }

\* the channels of the blended frame at position i, each as
\* [v, k, s, a, b]: v the channel of the frame, k/s the fraction, a and b
\* the channels of the two images blended
BlendSamples(i) ==
    LET s == steps_per_interpolation
        start == images[((i - 1) \div s) + 1]
        end == images[((i - 1) \div s) + 2]
        frame == results[i].image
    IN  { [v |-> Channels(frame.data[j])[c],
           k |-> results[i].frame_num,
           s |-> s,
           a |-> Channels(start.data[j])[c],
           b |-> Channels(end.data[j])[c]] :
          j \in 1..Len(frame.data), c \in 1..3 }

Truncates(x) ==
    /\ WithinRounding(x.v, x.k, x.s, x.a, x.b)
    /\ (x.s = 2 /\ x.k = 1) => x.v = (x.a + x.b) \div 2

IsExact(x) == x.v = ExactBlend(x.k, x.s, x.a, x.b)

Grey127 == Image(<< Pixel(127, 127, 127) >>, 1, 1)

\* the frames of the results rs, None where next() returned None
FramesOf(rs) ==
    [i \in 1..Len(rs) |-> IF rs[i].tag = "Some" THEN rs[i].image ELSE None]

\* C6 (as amended): every blended channel is a*(1 - fraction) + b*fraction
\* with fraction = local/steps, evaluated in f64 arithmetic and truncated
\* toward zero: it is the truncated exact convex combination, or one less
\* when that combination is an integer; for steps = 2 the middle frame has
\* each channel equal to floor((a + b) / 2), and [all-black, all-white] with
\* steps = 2 gives exactly the frames all-black, all (127,127,127),
\* all-white.
C6_TruncatedBlend ==
    ValidRun =>
        /\ \A i \in BlendedAt : \A x \in BlendSamples(i) : Truncates(x)
        /\ (images = << Black, White >> /\ steps_per_interpolation = 2
            /\ Drained)
              => FramesOf(results) = << Black, Grey127, White, None >>

C6_Witness ==
    /\ images = << Black, White >> /\ steps_per_interpolation = 2
    /\ Drained
    /\ results[2].branch = "blend" /\ results[2].image = Grey127

\* C6 (as claimed): every blended channel is the exact convex combination
\* a*(1 - fraction) + b*fraction truncated toward zero.
C6_ExactTruncation ==
    ValidRun => \A i \in BlendedAt : \A x \in BlendSamples(i) : IsExact(x)

(***************************************************************************)
(* smooth called on its own: fraction k/s for 0 <= k <= s                  *)
(***************************************************************************)
MaxFractionSteps == 5

PixelPalette ==
    { Pixel(0, 0, 0), Pixel(255, 255, 255), Pixel(1, 1, 1),
      Pixel(25, 7, 200), Pixel(3, 128, 254), Pixel(127, 64, 5),
      Pixel(2, 100, 253), Pixel(31, 9, 170), Pixel(255, 0, 11) }

InitSmooth ==
    /\ pc = "smooth"
    /\ overflow_checks = FALSE
    /\ new(<< >>, 0)
    /\ results = << >>
    /\ opt = << >>
    /\ fs = << >>
    /\ \E s \in 1..MaxFractionSteps, k \in 0..MaxFractionSteps,
          c1 \in PixelPalette, c2 \in PixelPalette :
          /\ k <= s
          /\ arg = [frame_num |-> k, steps |-> s, c1 |-> c1, c2 |-> c2]
    /\ ret = << >>

\* smooth(frame_num as f64 / steps as f64, c1, c2)
CallSmooth ==
    /\ pc = "smooth"
    /\ ret' = smooth(F64DivInt(arg.frame_num, arg.steps), arg.c1, arg.c2)
    /\ pc' = "smooth_returned"
    /\ UNCHANGED << overflow_checks, images, image_no, frame_no,
                    steps_per_interpolation, results, opt, fs, arg >>

NextSmooth == CallSmooth

SpecSmooth == InitSmooth /\ [][NextSmooth]_vars

\* C5: for all pixels a and b, smooth(0, a, b) = a.
C5_BlendAtZero ==
    (pc = "smooth_returned" /\ arg.frame_num = 0) => ret = arg.c1

C5_Witness ==
    /\ pc = "smooth_returned" /\ arg.frame_num = 0
    /\ arg.c1 = Pixel(25, 7, 200) /\ arg.c2 = Pixel(255, 255, 255)
    /\ ret = arg.c1

\* C7: the blend is correct at fraction = 1 too: smooth(1, a, b) = b for all
\* pixels a and b.
C7_BlendAtOne ==
    (pc = "smooth_returned" /\ arg.frame_num = arg.steps) => ret = arg.c2

(***************************************************************************)
(* Image::new_from_parts called on its own                                 *)
(***************************************************************************)
MaxLen == 4

\* 65536 * 65536 = 2^32 and 65537 * 65535 = 2^32 - 1
Dimensions == { 0, 1, 2, 3, 65535, 65536, 65537 }

RECURSIVE Pixels(_)
Pixels(len) ==
    IF len = 0 THEN << >> ELSE Pixels(len - 1) \o << Pixel(len, 0, 0) >>

InitImage ==
    /\ pc = "new_from_parts"
    /\ overflow_checks \in BOOLEAN
    /\ new(<< >>, 0)
    /\ results = << >>
    /\ opt = << >>
    /\ fs = << >>
    /\ \E len \in 0..MaxLen, w \in Dimensions, h \in Dimensions :
          arg = [data |-> Pixels(len), width |-> w, height |-> h]
    /\ ret = << >>

\* Image::new_from_parts(data, width, height)
CallNewFromParts ==
    /\ pc = "new_from_parts"
    /\ ret' = new_from_parts(arg.data, arg.width, arg.height, overflow_checks)
    /\ pc' = "new_from_parts_returned"
    /\ UNCHANGED << overflow_checks, images, image_no, frame_no,
                    steps_per_interpolation, results, opt, fs, arg >>

NextImage == CallNewFromParts

SpecImage == InitImage /\ [][NextImage]_vars

\* data.len() = width * height, in unbounded arithmetic
DimensionsMatch(data, width, height) ==
    /\ ~MulOverflows(width, height)
    /\ AsU32(Len(data)) = WrappingMul(width, height)

\* C8: new_from_parts(data, width, height) returns an error whenever
\* data.len() # width * height and an Image only when they are equal, for
\* all u32 width and height, also when width * height exceeds the u32 range.
C8_DimensionInvariant ==
    pc = "new_from_parts_returned" =>
        IF DimensionsMatch(arg.data, arg.width, arg.height)
        THEN ret = Ok(Image(arg.data, arg.width, arg.height))
        ELSE ret = Err

(***************************************************************************)
(* fn main                                                                 *)
(***************************************************************************)
MaxInputs == 3
MaxFrames == 2

\* what the png decoder yields for an input path: a failure, or the
\* buffer as RGB pixels with the width and height of the header
Unreadable == [tag |-> "Unreadable"]
Decoded(image) ==
    [tag |-> "Decoded", data |-> image.data, width |-> image.width,
     height |-> image.height]
\* a 2 x 2 header over a buffer that holds 3 RGB pixels
Mismatched ==
    [tag |-> "Decoded", data |-> Pixels(3), width |-> 2, height |-> 2]

DecoderOutcomes ==
    { Unreadable, Decoded(Black), Decoded(White), Decoded(Wide), Mismatched }

\* the size check over images[2..] in place of images[1..]
AllSameSize_SkipSecond(imgs) ==
    \A i \in 3..Len(imgs) :
        imgs[i].width = imgs[1].width /\ imgs[i].height = imgs[1].height

\* images[1..].iter().all(|im| im.width == images[0].width
\*                          && im.height == images[0].height)
AllSameSize(imgs) ==
    \A i \in 2..Len(imgs) :
        imgs[i].width = imgs[1].width /\ imgs[i].height = imgs[1].height

\* Opt::from_args(): at least two image paths, n_frames any usize
InitMain ==
    /\ pc = "load"
    /\ overflow_checks = FALSE
    /\ new(<< >>, 0)
    /\ results = << >>
    /\ \E n \in 2..MaxInputs :
         \E paths \in [1..n -> DecoderOutcomes], n_frames \in 0..MaxFrames :
            opt = [images |-> paths, n_frames |-> n_frames]
    /\ \E exists \in BOOLEAN :
         fs = [outdir_exists |-> exists, created |-> FALSE, files |-> << >>]
    /\ arg = << >>
    /\ ret = << >>

\* Image::new_from_path on the next path, inside collect::<Result<_>>()?
LoadImage ==
    /\ pc = "load"
    /\ LET in == opt.images[Len(images) + 1]
           made == new_from_parts(in.data, in.width, in.height,
                                  overflow_checks)
       IN  IF in = Unreadable
           THEN pc' = "failed" /\ UNCHANGED images
           ELSE IF made = Panic
           THEN pc' = "panicked" /\ UNCHANGED images
           ELSE IF made = Err
           THEN pc' = "failed" /\ UNCHANGED images
           ELSE /\ images' = Append(images, made.image)
                /\ pc' = IF Len(images) + 1 = Len(opt.images)
                         THEN "check" ELSE "load"
    /\ UNCHANGED << overflow_checks, image_no, frame_no,
                    steps_per_interpolation, results, opt, fs, arg, ret >>

\* ensure!(images[1..].iter().all(..), "All of the images must have ...")
CheckSizes ==
    /\ pc = "check"
    /\ pc' = IF AllSameSize(images) THEN "create_dir" ELSE "failed"
    /\ UNCHANGED << overflow_checks, images, image_no, frame_no,
                    steps_per_interpolation, results, opt, fs, arg, ret >>

\* the directory made with create_dir_all, which accepts one that exists
CreateDir_IgnoreExisting ==
    /\ pc = "create_dir"
    /\ \E io_ok \in BOOLEAN :
         IF ~io_ok
         THEN /\ pc' = "failed"
              /\ UNCHANGED << fs, image_no, frame_no,
                              steps_per_interpolation >>
         ELSE /\ pc' = "loop"
              /\ fs' = [fs EXCEPT !.created = ~fs.outdir_exists,
                                  !.outdir_exists = TRUE]
              /\ image_no' = 0
              /\ frame_no' = 0
              /\ steps_per_interpolation' = opt.n_frames
    /\ UNCHANGED << overflow_checks, images, results, opt, arg, ret >>

\* fs::create_dir(opt.outdir)?, then Interpolator::new(images, opt.n_frames)
CreateDir ==
    /\ pc = "create_dir"
    /\ \E io_ok \in BOOLEAN :
         IF fs.outdir_exists \/ ~io_ok
         THEN /\ pc' = "failed"
              /\ UNCHANGED << fs, image_no, frame_no,
                              steps_per_interpolation >>
         ELSE /\ pc' = "loop"
              /\ fs' = [fs EXCEPT !.outdir_exists = TRUE, !.created = TRUE]
              /\ image_no' = 0
              /\ frame_no' = 0
              /\ steps_per_interpolation' = opt.n_frames
    /\ UNCHANGED << overflow_checks, images, results, opt, arg, ret >>

\* the loop naming the files from 1
LoopStep_OneBased ==
    /\ pc = "loop"
    /\ LET r == NextOf(Self, overflow_checks)
           i == Len(results)
       IN  /\ frame_no' = r.frame_no
           /\ image_no' = r.image_no
           /\ IF r.item = Panic
              THEN pc' = "panicked" /\ UNCHANGED << results, fs >>
              ELSE IF r.item = None
              THEN pc' = "done" /\ UNCHANGED << results, fs >>
              ELSE /\ results' = Append(results, r.item)
                   /\ \E io_ok \in BOOLEAN :
                        IF io_ok
                        THEN /\ fs' = [fs EXCEPT !.files =
                                         Append(@, [index |-> i + 1,
                                                    image |-> r.item.image])]
                             /\ pc' = pc
                        ELSE pc' = "failed" /\ UNCHANGED fs
    /\ UNCHANGED << overflow_checks, images, steps_per_interpolation,
                    opt, arg, ret >>

\* the loop going on to the next frame when a save fails
LoopStep_SkipFailedSave ==
    /\ pc = "loop"
    /\ LET r == NextOf(Self, overflow_checks)
           i == Len(results)
       IN  /\ frame_no' = r.frame_no
           /\ image_no' = r.image_no
           /\ IF r.item = Panic
              THEN pc' = "panicked" /\ UNCHANGED << results, fs >>
              ELSE IF r.item = None
              THEN pc' = "done" /\ UNCHANGED << results, fs >>
              ELSE /\ results' = Append(results, r.item)
                   /\ \E io_ok \in BOOLEAN :
                        IF io_ok
                        THEN /\ fs' = [fs EXCEPT !.files =
                                         Append(@, [index |-> i,
                                                    image |-> r.item.image])]
                             /\ pc' = pc
                        ELSE pc' = pc /\ UNCHANGED fs
    /\ UNCHANGED << overflow_checks, images, steps_per_interpolation,
                    opt, arg, ret >>

\* one turn of `for (i, image) in interpolator.enumerate()`: next(), then
\* image.save(".../frame_{i:05}.png")?
LoopStep ==
    /\ pc = "loop"
    /\ LET r == NextOf(Self, overflow_checks)
           i == Len(results)
       IN  /\ frame_no' = r.frame_no
           /\ image_no' = r.image_no
           /\ IF r.item = Panic
              THEN pc' = "panicked" /\ UNCHANGED << results, fs >>
              ELSE IF r.item = None
              THEN pc' = "done" /\ UNCHANGED << results, fs >>
              ELSE /\ results' = Append(results, r.item)
                   /\ \E io_ok \in BOOLEAN :
                        IF io_ok
                        THEN /\ fs' = [fs EXCEPT !.files =
                                         Append(@, [index |-> i,
                                                    image |-> r.item.image])]
                             /\ pc' = pc
                        ELSE pc' = "failed" /\ UNCHANGED fs
    /\ UNCHANGED << overflow_checks, images, steps_per_interpolation,
                    opt, arg, ret >>

NextMain == LoadImage \/ CheckSizes \/ CreateDir \/ LoopStep

SpecMain == InitMain /\ [][NextMain]_vars

\* C10: if the decoded images do not all share the width and height of
\* images[0], the run gets no further than the size check, where it fails:
\* the output directory is not created, next() is never called and no frame
\* file is written.
C10_SizeMismatchFails ==
    (Len(images) = Len(opt.images) /\ ~SameSize) =>
        /\ pc \in { "check", "failed" }
        /\ fs.created = FALSE
        /\ fs.files = << >>
        /\ results = << >>
        /\ image_no = 0 /\ frame_no = 0

C10_Witness ==
    /\ Len(images) = Len(opt.images) /\ ~SameSize
    /\ pc = "failed"
    /\ ~fs.outdir_exists
    /\ images[1] = Black /\ images[2] = Wide

\* C11: a run that finds the output directory already there fails at
\* create_dir: it never enters the frame loop and writes no frame file; and
\* whenever a frame file has been written, the directory was created by this
\* run.
C11_ExistingDirFails ==
    /\ (fs.outdir_exists /\ ~fs.created) =>
          /\ pc \in { "load", "check", "create_dir", "failed", "panicked" }
          /\ fs.files = << >>
          /\ results = << >>
    /\ fs.files # << >> => fs.created

\* create_dir was reached with every image loaded and the sizes equal, found
\* the directory there and failed
C11_Witness ==
    /\ pc = "failed"
    /\ fs.outdir_exists /\ ~fs.created
    /\ Len(images) = Len(opt.images) /\ SameSize
    /\ fs.files = << >>

\* C12: the frame files are written in the order the iterator produces the
\* frames and the j-th file written (from 0) has index j and holds the
\* j-th frame produced: the written indices are always 0..m without a gap.
C12_FilesInOrder ==
    /\ Len(fs.files) <= Len(results)
    /\ \A j \in 1..Len(fs.files) :
          /\ fs.files[j].index = j - 1
          /\ fs.files[j].image = results[j].image

\* three frames written, a blended one among them
C12_Witness ==
    /\ Len(fs.files) = 3
    /\ fs.files[3].index = 2
    /\ results[2].branch = "blend"
    /\ fs.files[2].image # fs.files[1].image

Aborted == pc \in { "failed", "panicked" }

\* C13: a failure ends the run: from a failed or panicked state nothing
\* changes any more (no frame is produced or written afterwards); a run
\* that has not failed has written every frame produced so far, and a failed
\* one has written all but at most the last frame produced, the one whose
\* save failed; no frame is written before the directory is created, which
\* happens only after every image is decoded and the sizes are checked.
C13_FailureAborts ==
    /\ [](/\ Len(results) - Len(fs.files) \in { 0, 1 }
          /\ Len(results) # Len(fs.files) => pc = "failed"
          /\ \A j \in 1..Len(fs.files) : fs.files[j].index = j - 1
          /\ fs.created =>
                Len(images) = Len(opt.images) /\ AllSameSize(images))
    /\ [][Aborted => UNCHANGED vars]_vars

\* the save of the second frame failed after the first was written
C13_Witness ==
    /\ pc = "failed"
    /\ Len(fs.files) = 1
    /\ Len(results) = 2

\* C14: in an interpolation run every frame of global index k with
\* k % steps = 0, k = 0 included, comes from the copy branch of next() and
\* is images[k / steps]; the blend branch makes only frames with
\* k % steps # 0.
C14_BoundaryFramesCopied ==
    ValidRun =>
        \A i \in 1..Len(results) :
            results[i].tag = "Some" =>
                LET k == i - 1
                IN  IF k % steps_per_interpolation = 0
                    THEN /\ results[i].branch = "copy"
                         /\ results[i].image =
                                images[(k \div steps_per_interpolation) + 1]
                    ELSE results[i].branch = "blend"

\* C15: for steps >= 1 every frame made by the blend branch was made for a
\* frame_num with 0 <= frame_num < steps, so its fraction
\* mu = frame_num / steps, as the f64 division computes it, is below 1.0;
\* and in an interpolation run the frame that shows the end image of a
\* segment (global index a positive multiple of steps) comes from the copy
\* branch and is that image.
C15_FractionBelowOne ==
    steps_per_interpolation >= 1 =>
        /\ \A i \in BlendedAt :
              /\ 0 <= results[i].frame_num
              /\ results[i].frame_num < steps_per_interpolation
              /\ F64DivInt(results[i].frame_num,
                           steps_per_interpolation)[NLimbs] = 0
        /\ ValidRun =>
              \A i \in 2..Len(results) :
                  (results[i].tag = "Some"
                     /\ (i - 1) % steps_per_interpolation = 0) =>
                      /\ results[i].branch = "copy"
                      /\ results[i].image =
                             images[((i - 1) \div steps_per_interpolation) + 1]

\* steps = 3: the blends of the first segment with frame_num 1 and 2 are
\* followed by the copy of images[1]
C15_Witness ==
    /\ ValidRun /\ steps_per_interpolation = 3
    /\ Len(results) >= 4
    /\ results[3].branch = "blend" /\ results[3].frame_num = 2
    /\ results[4].branch = "copy" /\ results[4].image = images[2]
    /\ images[1] # images[2]

\* the call just made returned a frame
Emitted ==
    /\ Len(results') = Len(results) + 1
    /\ results'[Len(results')].tag = "Some"

\* C16: the cursor (image_no, frame_no) starts at (0, 0); for steps >= 1 a
\* call of next() that returns a frame either adds one to frame_no and
\* leaves image_no (when frame_no < steps before the call), or, exactly when
\* frame_no = steps before the call, sets frame_no to 1 and adds one to
\* image_no; after it 1 <= frame_no <= steps and image_no <= n - 1; and no
\* call returns a frame once image_no + 1 > n - 1.
C16_CursorSteps ==
    /\ (image_no = 0 /\ frame_no = 0)
    /\ [][steps_per_interpolation >= 1 =>
            /\ Emitted =>
                  /\ IF frame_no = steps_per_interpolation
                     THEN frame_no' = 1 /\ image_no' = image_no + 1
                     ELSE /\ frame_no < steps_per_interpolation
                          /\ frame_no' = frame_no + 1
                          /\ image_no' = image_no
                  /\ 1 <= frame_no' /\ frame_no' <= steps_per_interpolation
                  /\ image_no' <= NumImages - 1
            /\ image_no + 1 > NumImages - 1 => ~Emitted]_vars

\* the cursor after the copy that enters the last segment: (2, 1), with the
\* blends of two segments behind it
C16_Witness ==
    /\ steps_per_interpolation = 3 /\ NumImages = 3
    /\ Len(results) = 7
    /\ results[7].tag = "Some" /\ results[7].branch = "copy"
    /\ image_no = 2 /\ frame_no = 1

\* C17: no call of next() changes the image list (its length, and the data,
\* width and height of every image) or steps_per_interpolation; of the
\* interpolator's fields only image_no and frame_no change, and at least one
\* of them does in every call.
C17_SourcesUnchanged ==
    [][/\ images' = images
       /\ steps_per_interpolation' = steps_per_interpolation
       /\ << image_no, frame_no >>' # << image_no, frame_no >>]_vars

\* blended and copied frames have been returned: a blend that differs from
\* both of its sources, and the cursor in the second segment
C17_Witness ==
    /\ steps_per_interpolation = 2 /\ NumImages = 3
    /\ Len(results) >= 4
    /\ results[2].tag = "Some" /\ results[2].branch = "blend"
    /\ results[2].image # images[1] /\ results[2].image # images[2]
    /\ results[3].tag = "Some" /\ results[3].branch = "copy"
    /\ image_no = 1

\* the number of frames next() returns: none for n <= 1, n - 1 for
\* steps = 0, and (n - 1) * steps + 1 otherwise
FrameBound ==
    IF NumImages <= 1 THEN 0
    ELSE IF steps_per_interpolation = 0 THEN NumImages - 1
    ELSE Total

C19_StepsZero ==
    (steps_per_interpolation = 0 /\ NumImages >= 2) =>
        /\ pc # "panicked"
        /\ BlendedAt = { }
        /\ \A i \in 1..Len(results) :
              IF i <= NumImages - 1
              THEN /\ results[i].tag = "Some"
                   /\ results[i].branch = "copy"
                   /\ results[i].image = images[i + 1]
              ELSE results[i] = None
        /\ Drained => Len(results) = NumImages

\* three images of which the first is unlike the others: two frames, then
\* None
C19_Witness ==
    /\ steps_per_interpolation = 0 /\ NumImages = 3
    /\ Drained /\ Len(results) = 3
    /\ results[1].image = images[2] /\ results[2].image = images[3]
    /\ images[1] # images[2] /\ images[1] # images[3]
    /\ images[1].width # images[2].width

\* C20: when all images of the list share one width and height, every frame
\* next() returns has that width and height and a pixel buffer of
\* width * height pixels, and no call panics at the unwrap of the frame
\* construction.
C20_FramesWellFormed ==
    SameSize =>
        /\ pc # "panicked"
        /\ \A i \in 1..Len(results) :
              results[i].tag = "Some" =>
                  /\ results[i].image.width = images[1].width
                  /\ results[i].image.height = images[1].height
                  /\ Len(results[i].image.data) =
                         images[1].width * images[1].height

\* a run over two 2 x 1 images: blended and copied frames of two pixels
C20_Witness ==
    /\ SameSize /\ NumImages >= 2 /\ steps_per_interpolation = 2
    /\ images[1].width = 2 /\ images[1].height = 1
    /\ Len(results) >= 3
    /\ results[2].tag = "Some" /\ results[2].branch = "blend"
    /\ Len(results[2].image.data) = 2
    /\ results[3].tag = "Some" /\ results[3].branch = "copy"

====
